---- MODULE Spec2Model ----
(***************************************************************************)
(* A model of two pieces of firebase-tools:                                *)
(*                                                                         *)
(*   - FakeListRemote (src/unnamed/part_000), the in-memory Listing Client *)
(*     used by the database tests: listPath, _dataAtpath and               *)
(*     setArtificialDelay, together with the cursor pager that drives      *)
(*     listPath page by page;                                              *)
(*   - the ext:install command (src/src/commands/ext-install.ts): the      *)
(*     command action and installExtension, one step per awaited call.     *)
(*                                                                         *)
(* Strings are sequences of UTF-16 code units, so that the comparison      *)
(* `key > startAfter`, `path.slice(1)` and `split("/")` are computed the   *)
(* way JavaScript computes them.                                           *)
(***************************************************************************)
EXTENDS Integers, Sequences, FiniteSets, TLC

VARIABLES
    data,       \* FakeListRemote.data: the fake database tree
    delay,      \* FakeListRemote.delay: the artificial delay of every call
    call,       \* arguments and observed latency of the listPath call last made
    result,     \* how that call's promise settled
    pager,      \* the cursor pager's state while it pages through one path
    pc,         \* position of the ext:install action / installExtension
    argv,       \* the [extensionName] argument of the command line ("" if omitted)
    extensionName, \* the action's extensionName
    learnMore,  \* the action's learnMore flag
    instanceId, \* installExtension's instanceId
    serviceAccountEmail, \* installExtension's serviceAccountEmail
    spinner,    \* state of the ora spinner
    log,        \* every external call made so far, in order, with its outcome
    outcome     \* how the command's promise settled

listVars == <<data, delay, call, result, pager>>
installVars == <<pc, argv, extensionName, learnMore, instanceId, serviceAccountEmail,
                 spinner, log, outcome>>
vars == <<data, delay, call, result, pager, pc, argv, extensionName, learnMore,
          instanceId, serviceAccountEmail, spinner, log, outcome>>

(***************************************************************************)
(* Bounds of the model.                                                    *)
(***************************************************************************)
\* Largest number of children of the root object of the store.
MaxKeys == 3
\* Largest page size (numChildren) a caller asks for.
MaxNumChildren == 2
\* Largest number of 409 conflicts createServiceAccountAndSetRoles reports.
MaxConflicts == 2

(***************************************************************************)
(* Strings.                                                                *)
(***************************************************************************)
\* The code unit of "/", the separator _dataAtpath splits on.
Slash == 47

EmptyString == << >>

\* Code units of the decimal digits "0".."9".
IsDigit(c) == c >= 48 /\ c <= 57

\* JavaScript's a < b on strings: lexicographic on code units.
RECURSIVE StrLT(_, _)
StrLT(a, b) ==
    IF b = << >> THEN FALSE
    ELSE IF a = << >> THEN TRUE
    ELSE IF Head(a) # Head(b) THEN Head(a) < Head(b)
    ELSE StrLT(Tail(a), Tail(b))

\* JavaScript's a > b on strings.
StrGT(a, b) == StrLT(b, a)

\* String.prototype.slice(1): the string without its first code unit.
Slice1(s) == IF Len(s) <= 1 THEN EmptyString ELSE SubSeq(s, 2, Len(s))

\* String.prototype.split("/"): the pieces between the separators, the empty
\* pieces included ("" splits to [""], "a/" to ["a", ""]).
RECURSIVE Split(_)
Split(s) ==
    IF \A i \in 1..Len(s) : s[i] # Slash THEN << s >>
    ELSE LET i == CHOOSE j \in 1..Len(s) :
                      s[j] = Slash /\ \A k \in 1..(j - 1) : s[k] # Slash
         IN  << SubSeq(s, 1, i - 1) >> \o Split(SubSeq(s, i + 1, Len(s)))

\* Array.prototype.slice(0, n) for n >= 0.
SliceTo(keys, n) == IF Len(keys) <= n THEN keys ELSE SubSeq(keys, 1, n)

(***************************************************************************)
(* JavaScript values of the tree: numbers (leaves), objects, undefined and *)
(* null.  An object is its own properties in property order.               *)
(***************************************************************************)
Num(n) == [t |-> "number", v |-> n, e |-> << >>]
Obj(entries) == [t |-> "object", v |-> 0, e |-> entries]
Undefined == [t |-> "undefined", v |-> 0, e |-> << >>]
Null == [t |-> "null", v |-> 0, e |-> << >>]
Entry(k, n) == [k |-> k, n |-> n]

\* ToBoolean: objects are truthy, a number is truthy unless it is 0,
\* undefined and null are falsy.
TruthyValue(d) == d.t = "object" \/ (d.t = "number" /\ d.v # 0)

\* Object.keys(d): the own keys of an object in property order; a number has
\* no own keys.
ObjectKeys(d) == [i \in 1..Len(d.e) |-> d.e[i].k]

\* d[p]: the value of own property p, undefined when there is none.
GetProp(d, p) ==
    IF \E i \in 1..Len(d.e) : d.e[i].k = p
    THEN d.e[CHOOSE i \in 1..Len(d.e) : d.e[i].k = p].n
    ELSE Undefined

\* The decimal value of a string of digits.
RECURSIVE DecimalValue(_)
DecimalValue(s) ==
    IF s = << >> THEN 0
    ELSE 10 * DecimalValue(SubSeq(s, 1, Len(s) - 1)) + (s[Len(s)] - 48)

\* An integer index: a canonical numeric string (digits, no leading zero).
IsIntegerIndex(s) ==
    /\ s # << >>
    /\ \A i \in 1..Len(s) : IsDigit(s[i])
    /\ (Len(s) > 1 => s[1] # 48)

\* The order in which an object holds its own properties: the integer
\* indices in ascending numeric order, then the other keys in the order they
\* were inserted (any order), no key twice.
IsPropertyOrder(keys) ==
    /\ \A i, j \in 1..Len(keys) : i # j => keys[i] # keys[j]
    /\ \A i, j \in 1..Len(keys) :
           (i < j /\ IsIntegerIndex(keys[j])) =>
               /\ IsIntegerIndex(keys[i])
               /\ DecimalValue(keys[i]) < DecimalValue(keys[j])

(***************************************************************************)
(* FakeListRemote                                                          *)
(***************************************************************************)
\* One iteration of _dataAtpath's loop over the path's segments.
DataAtpathStep(d, p) ==
    IF TruthyValue(d) /\ p # EmptyString
    THEN IF d.t = "number" THEN Null ELSE GetProp(d, p)
    ELSE d

RECURSIVE DataAtpathLoop(_, _)
DataAtpathLoop(d, splitedPath) ==
    IF splitedPath = << >> THEN d
    ELSE DataAtpathLoop(DataAtpathStep(d, Head(splitedPath)), Tail(splitedPath))

\* _dataAtpath(path) on the tree root.
DataAtpath(root, path) == DataAtpathLoop(root, Split(Slice1(path)))

\* An optional argument is << >> when absent and << value >> when given.
Absent == << >>
Given(x) == << x >>

\* `if (startAfter)`: an absent or an empty startAfter is falsy.
TruthyString(startAfter) == startAfter # Absent /\ startAfter[1] # EmptyString

\* `if (timeout ...)`: an absent or a zero timeout is falsy.
TruthyNumber(timeout) == timeout # Absent /\ timeout[1] # 0

\* keys.filter((key) => key > startAfter)
FilterKeys(keys, startAfter) == SelectSeq(keys, LAMBDA key : StrGT(key, startAfter))

\* A slip: `latency > timeout`.
TimedOutStrictly(timeout, latency) == TruthyNumber(timeout) /\ latency > timeout[1]

\* `timeout && latency >= timeout`
TimedOut(timeout, latency) == TruthyNumber(timeout) /\ latency >= timeout[1]

\* A slip: limitToFirst applied before startAfter.
ListKeysTruncatedFirst(root, path, numChildren, startAfter) ==
    LET d == DataAtpath(root, path)
    IN  IF TruthyValue(d)
        THEN LET keys == SliceTo(ObjectKeys(d), numChildren)
             IN  [status |-> "resolved",
                  keys |-> IF TruthyString(startAfter)
                           THEN FilterKeys(keys, startAfter[1])
                           ELSE keys]
        ELSE [status |-> "resolved", keys |-> << >>]

\* A slip: no `if (d)` guard, so that Object.keys(undefined) throws.
ListKeysUnguarded(root, path, numChildren, startAfter) ==
    LET d == DataAtpath(root, path)
    IN  IF d.t \in { "undefined", "null" }
        THEN [status |-> "rejected", keys |-> << >>]
        ELSE LET keys == ObjectKeys(d)
                 filtered == IF TruthyString(startAfter)
                             THEN FilterKeys(keys, startAfter[1])
                             ELSE keys
             IN  [status |-> "resolved", keys |-> SliceTo(filtered, numChildren)]

\* The keys listPath resolves with once the timeout check has passed.
ListKeys(root, path, numChildren, startAfter) ==
    LET d == DataAtpath(root, path)
    IN  IF TruthyValue(d)
        THEN LET keys == ObjectKeys(d)
                 filtered == IF TruthyString(startAfter)
                             THEN FilterKeys(keys, startAfter[1])
                             ELSE keys
             IN  [status |-> "resolved", keys |-> SliceTo(filtered, numChildren)]
        ELSE [status |-> "resolved", keys |-> << >>]

\* listPath(path, numChildren, startAfter, timeout), given the latency the
\* call observes: how its promise settles.
ListPath(root, path, numChildren, startAfter, timeout, latency) ==
    IF TimedOut(timeout, latency)
    THEN [status |-> "rejected", keys |-> << >>]
    ELSE ListKeys(root, path, numChildren, startAfter)

\* setArtificialDelay(delay)
SetArtificialDelayTo(d) == d

(***************************************************************************)
(* Inputs: the stores, paths and arguments the calls are made with.        *)
(***************************************************************************)
\* Child keys "2", "10", "a", "b": two integer indices whose numeric order
\* (2 < 10) is not their string order ("10" < "2"), and two other keys.
\* Child keys are not empty: _dataAtpath skips an empty segment, so that a
\* child of that name could not be addressed.
KeyPool == { <<50>>, <<49, 48>>, <<97>>, <<98>> }

\* Leaves are integers (the subtree's size); 0 is the falsy one.
Leaves == { Num(0), Num(1) }

\* A subtree with three children: { 2: 0, 10: 3, a: 1 }.
Nested == Obj(<< Entry(<<50>>, Num(0)), Entry(<<49, 48>>, Num(3)), Entry(<<97>>, Num(1)) >>)

SubNodes == Leaves \cup { Nested }

KeyLists ==
    { keys \in UNION { [1..n -> KeyPool] : n \in 0..MaxKeys } : IsPropertyOrder(keys) }

\* The stores: a leaf, or an object of at most MaxKeys children, each a leaf
\* or the nested subtree.
Stores ==
    Leaves \cup
    UNION { { Obj([i \in 1..Len(keys) |-> Entry(keys[i], sub[i])]) :
                sub \in [1..Len(keys) -> SubNodes] } : keys \in KeyLists }

\* Path segments "" and "2", joined with "/" after the leading "/".
SegPool == { EmptyString, <<50>> }

RECURSIVE JoinSegs(_)
JoinSegs(segs) ==
    IF segs = << >> THEN EmptyString
    ELSE IF Len(segs) = 1 THEN segs[1]
    ELSE segs[1] \o << Slash >> \o JoinSegs(Tail(segs))

\* "/", "//", "/2", "///", "//2", "/2/", "/2/2"
Paths == { << Slash >> \o JoinSegs(segs) : segs \in UNION { [1..n -> SegPool] : n \in 0..2 } }

PageSizes == 1..MaxNumChildren

StartAfters == { Absent } \cup { Given(k) : k \in KeyPool \cup { EmptyString } }

\* Timeouts are positive when given.
Timeouts == { Absent, Given(1), Given(2) }

Delays == { 0, 1 }

\* The latency a call observes: the timer fires at the delay or a tick later.
Latencies(d) == { d, d + 1 }

NoCall == [path |-> << >>, numChildren |-> 0, startAfter |-> Absent,
           timeout |-> Absent, latency |-> 0]
NoResult == [status |-> "none", keys |-> << >>]
IdlePager == [pc |-> "idle", path |-> << >>, numChildren |-> 0, timeout |-> Absent,
              cursor |-> Absent, visited |-> << >>, retried |-> FALSE]

\* How the command's promise stands: pending, resolved, or rejected with an
\* error that is a FirebaseError or not, wrapping the original or not.
Pending == [state |-> "pending", firebaseError |-> FALSE, wraps |-> FALSE]
Resolved == [state |-> "resolved", firebaseError |-> FALSE, wraps |-> FALSE]
Rejected(err) == [state |-> "rejected", firebaseError |-> err.firebaseError,
                  wraps |-> err.wraps]

(***************************************************************************)
(* The ext:install command is at rest while the Listing Client is checked, *)
(* and the other way round.                                                *)
(***************************************************************************)
InstallAtRest ==
    /\ pc = "start"
    /\ argv = ""
    /\ extensionName = ""
    /\ learnMore = FALSE
    /\ instanceId = ""
    /\ serviceAccountEmail = ""
    /\ spinner = "idle"
    /\ log = << >>
    /\ outcome = Pending

ListAtRest ==
    /\ data = Obj(<< >>)
    /\ delay = 0
    /\ call = NoCall
    /\ result = NoResult
    /\ pager = IdlePager

(***************************************************************************)
(* The Listing Client: one listPath call at a time.                        *)
(***************************************************************************)
\* constructor(data): this.data = data; this.delay = 0
InitList ==
    /\ data \in Stores
    /\ delay = 0
    /\ call = NoCall
    /\ result = NoResult
    /\ pager = IdlePager
    /\ InstallAtRest

\* setArtificialDelay(delay)
SetArtificialDelay ==
    /\ \E d \in Delays : d # delay /\ delay' = SetArtificialDelayTo(d)
    /\ UNCHANGED <<data, call, result, pager>>
    /\ UNCHANGED installVars

\* A caller invokes listPath and its promise settles.
ListPathCall ==
    /\ result = NoResult
    /\ \E path \in Paths, numChildren \in PageSizes, startAfter \in StartAfters,
          timeout \in Timeouts, latency \in Latencies(delay) :
           /\ call' = [path |-> path, numChildren |-> numChildren,
                       startAfter |-> startAfter, timeout |-> timeout,
                       latency |-> latency]
           /\ result' = ListPath(data, path, numChildren, startAfter, timeout, latency)
    /\ UNCHANGED <<data, delay, pager>>
    /\ UNCHANGED installVars

\* The caller takes the settled promise's value or error.
ListPathReturn ==
    /\ result # NoResult
    /\ call' = NoCall
    /\ result' = NoResult
    /\ UNCHANGED <<data, delay, pager>>
    /\ UNCHANGED installVars

NextList == SetArtificialDelay \/ ListPathCall \/ ListPathReturn

SpecList == InitList /\ [][NextList]_vars

(***************************************************************************)
(* The cursor pager: listPath page by page over one path.                  *)
(***************************************************************************)
InitPager == InitList

\* The pager starts on a path: no cursor yet.
PagerStart ==
    /\ pager.pc = "idle"
    /\ \E path \in Paths, numChildren \in PageSizes, timeout \in Timeouts :
           pager' = [pc |-> "paging", path |-> path, numChildren |-> numChildren,
                     timeout |-> timeout, cursor |-> Absent, visited |-> << >>,
                     retried |-> FALSE]
    /\ UNCHANGED <<data, delay, call, result>>
    /\ UNCHANGED installVars

\* The last key of a page.
LastKey(keys) == keys[Len(keys)]

\* The pager after a page request settled with r: a rejected request leaves
\* the cursor where it was, to be re-issued; a page of fewer than numChildren
\* keys ends the paging.
PagerAfter(p, r) ==
    IF r.status = "rejected"
    THEN [p EXCEPT !.retried = TRUE]
    ELSE [p EXCEPT !.visited = p.visited \o r.keys,
                   !.cursor = IF r.keys = << >> THEN p.cursor ELSE Given(LastKey(r.keys)),
                   !.pc = IF Len(r.keys) < p.numChildren THEN "done" ELSE "paging"]

\* The pager requests the next page with startAfter = its cursor.
PagerNext ==
    /\ pager.pc = "paging"
    /\ \E latency \in Latencies(delay) :
           pager' = PagerAfter(pager,
                               ListPath(data, pager.path, pager.numChildren,
                                        pager.cursor, pager.timeout, latency))
    /\ UNCHANGED <<data, delay, call, result>>
    /\ UNCHANGED installVars

\* The consumer drops the exhausted pager.
PagerClose ==
    /\ pager.pc = "done"
    /\ pager' = IdlePager
    /\ UNCHANGED <<data, delay, call, result>>
    /\ UNCHANGED installVars

NextPager == SetArtificialDelay \/ PagerStart \/ PagerNext \/ PagerClose

SpecPager == InitPager /\ [][NextPager]_vars

(***************************************************************************)
(* What the claims speak of, stated apart from the code's own steps.       *)
(***************************************************************************)
\* a <= b on strings.
StrLE(a, b) == a = b \/ StrLT(a, b)

\* The path's segments: the non-empty pieces after the leading "/".
Segments(path) == SelectSeq(Split(Slice1(path)), LAMBDA p : p # EmptyString)

\* Where a walk along the segments ends: on an object, on a leaf, below a
\* leaf, or nowhere.
RECURSIVE Resolve(_, _)
Resolve(node, segs) ==
    IF segs = << >> THEN (IF node.t = "number" THEN "leaf" ELSE "object")
    ELSE IF node.t = "number" THEN "through leaf"
    ELSE IF \E i \in 1..Len(node.e) : node.e[i].k = Head(segs)
    THEN Resolve(node.e[CHOOSE i \in 1..Len(node.e) : node.e[i].k = Head(segs)].n,
                 Tail(segs))
    ELSE "missing"

\* The node a walk along the segments ends on, when it ends on one.
RECURSIVE NodeAt(_, _)
NodeAt(node, segs) ==
    IF segs = << >> THEN node
    ELSE NodeAt(node.e[CHOOSE i \in 1..Len(node.e) : node.e[i].k = Head(segs)].n,
                Tail(segs))

\* The path's child-key sequence: the keys of the object it resolves to, and
\* no keys when it resolves to no object.
ChildKeySequence(root, path) ==
    IF Resolve(root, Segments(path)) = "object"
    THEN LET node == NodeAt(root, Segments(path))
         IN  [i \in 1..Len(node.e) |-> node.e[i].k]
    ELSE << >>

\* The sequence restricted to the keys strictly greater than startAfter; no
\* restriction when startAfter is absent.
KeysAfter(keys, startAfter) ==
    IF startAfter = Absent THEN keys
    ELSE SelectSeq(keys, LAMBDA k : ~StrLE(k, startAfter[1]))

\* The first n entries of a sequence.
FirstEntries(keys, n) ==
    [i \in 1..(IF Len(keys) < n THEN Len(keys) ELSE n) |-> keys[i]]

\* The page the claims expect of the call last made.
ExpectedPage ==
    FirstEntries(KeysAfter(ChildKeySequence(data, call.path), call.startAfter),
                 call.numChildren)

\* The set of a sequence's entries.
Range(seq) == { seq[i] : i \in 1..Len(seq) }

\* A sequence holds each member of a set exactly once.
HoldsEachOnce(seq, set) == Range(seq) = set /\ Len(seq) = Cardinality(set)

\* Strictly increasing under the string comparison of the startAfter filter.
StrictlyIncreasing(keys) ==
    \A i, j \in 1..Len(keys) : i < j => StrLT(keys[i], keys[j])

\* The timeout of the call last made elapsed before its response.
Elapsed == call.timeout # Absent /\ call.latency >= call.timeout[1]

(* C1: a resolved listPath call returns exactly the first numChildren        *)
(* entries of the path's child-key sequence restricted to the keys strictly  *)
(* greater than startAfter (filter first, then truncation): never more than  *)
(* numChildren keys, never a key less than or equal to startAfter.           *)
C1_FilterThenTruncate ==
    result.status = "resolved" =>
        /\ result.keys = ExpectedPage
        /\ Len(result.keys) <= call.numChildren
        /\ call.startAfter # Absent =>
               \A i \in 1..Len(result.keys) : ~StrLE(result.keys[i], call.startAfter[1])

\* A call where the filter drops a key, the truncation drops another, and
\* truncating first would have given another page.
C1_Witness ==
    /\ result.status = "resolved"
    /\ call.startAfter # Absent
    /\ LET keys == ChildKeySequence(data, call.path)
           after == KeysAfter(keys, call.startAfter)
       IN  /\ Len(after) < Len(keys)
           /\ Len(result.keys) < Len(after)
           /\ result.keys # << >>
           /\ result.keys # KeysAfter(FirstEntries(keys, call.numChildren), call.startAfter)

(* C3: the keys of every returned page are strictly increasing under the     *)
(* string comparison the startAfter filter uses.                             *)
C3_PageStrictlyIncreasing ==
    result.status = "resolved" => StrictlyIncreasing(result.keys)

(* C4: a call whose timeout is given and has elapsed (latency >= timeout)    *)
(* is rejected and carries no key; every other call resolves with its page.  *)
C4_TimeoutRejectsWholeCall ==
    call # NoCall =>
        IF Elapsed
        THEN result.status = "rejected" /\ result.keys = << >>
        ELSE result.status = "resolved" /\ result.keys = ExpectedPage

\* A call rejected exactly at the deadline on a path that has keys to return.
C4_Witness ==
    /\ result.status = "rejected"
    /\ call.timeout # Absent
    /\ call.latency = call.timeout[1]
    /\ ExpectedPage # << >>

(* C5: when the path does not exist, resolves to a leaf (a leaf 0 too) or    *)
(* passes through a leaf, a call whose timeout has not elapsed resolves with *)
(* the empty list, whatever numChildren and startAfter are.                  *)
C5_NoObjectNoKeys ==
    (call # NoCall /\ ~Elapsed /\ Resolve(data, Segments(call.path)) # "object") =>
        result.status = "resolved" /\ result.keys = << >>

\* A call on a path that passes through a leaf whose value is 0.
C5_Witness ==
    /\ call # NoCall
    /\ result.status = "resolved"
    /\ Resolve(data, Segments(call.path)) = "through leaf"
    /\ data.t = "object"
    /\ GetProp(data, Head(Segments(call.path))) = Num(0)

(* C2: a pager that met no timeout and is done has visited every child key   *)
(* of its path exactly once.                                                 *)
C2_PagerVisitsEveryKeyOnce ==
    (pager.pc = "done" /\ ~pager.retried) =>
        HoldsEachOnce(pager.visited, Range(ChildKeySequence(data, pager.path)))

(* C6: a pager that re-issued timed-out page requests from its cursor and is *)
(* done has still visited every child key of its path exactly once, and no   *)
(* step of it changes the store.                                             *)
C6_RetriedPagerVisitsEveryKeyOnce ==
    (pager.pc = "done" /\ pager.retried) =>
        HoldsEachOnce(pager.visited, Range(ChildKeySequence(data, pager.path)))

(***************************************************************************)
(* ext:install: the command action and installExtension.  Every awaited   *)
(* call is one step; it is entered in the log with its outcome.  The       *)
(* interactive prompts resolve with the user's answer; the calls that      *)
(* reach a service may also throw.                                         *)
(***************************************************************************)
ExtensionNames == { "storage-resize-images", "firestore-send-email" }
InstanceIds == { "resize-images", "resize-images-x7q2" }
Emails == { "ext-a@project.iam", "ext-b@project.iam" }

\* The HTTP status createServiceAccountAndSetRoles reports when the service
\* account of that instance ID exists already.
Conflict == 409
OtherStatuses == { 403, 500 }

\* What a thrown error is: a FirebaseError or not, with its status.
Errors == [firebaseError : BOOLEAN, status : { 0 }, wraps : { FALSE }]
StatusErrors == [firebaseError : BOOLEAN, status : { Conflict } \cup OtherStatuses,
                 wraps : { FALSE }]

LogEntry(fn, ok, status, id, email, answer) ==
    [fn |-> fn, ok |-> ok, status |-> status, id |-> id, email |-> email,
     answer |-> answer]
Succeeded(fn) == LogEntry(fn, TRUE, 0, "", "", "")
Failed(fn, err) == LogEntry(fn, FALSE, err.status, "", "", "")

\* The catch blocks of installExtension and of the action: a FirebaseError is
\* rethrown, any other error is wrapped in one.
CatchAndWrap(err) ==
    IF err.firebaseError THEN err
    ELSE [firebaseError |-> TRUE, status |-> 0, wraps |-> TRUE]

\* `err.status === 409`
IsConflict(err) == err.status = Conflict

\* A slip: the answer to the confirmation is not looked at.
AfterConfirmAlwaysInstall(confirm) == "installExtension"

\* `if (!confirm) return;` and else the call of installExtension
AfterConfirm(confirm) == IF confirm THEN "installExtension" ELSE "return"

\* A slip: the parameters are not asked for before the instance is created.
InstallOrderWithoutParams ==
    << "checkProjectBilling", "askUserForConsent.prompt", "getValidInstanceId",
       "createServiceAccountAndSetRoles", "createInstance" >>

\* The awaited steps of installExtension in the order of its body.
InstallOrder ==
    << "checkProjectBilling", "askUserForConsent.prompt", "paramHelper.getParams",
       "getValidInstanceId", "createServiceAccountAndSetRoles", "createInstance" >>

StepAfter(step) ==
    InstallOrder[(CHOOSE i \in 1..Len(InstallOrder) : InstallOrder[i] = step) + 1]

\* A slip: the instance ID the user chose is dropped.
NewInstanceIdDropped(current, answer) == current

\* `instanceId = await promptForValidInstanceId(...)`
NewInstanceId(current, answer) == answer

\* `while (!serviceAccountEmail)`
LoopAgain(email) == email = ""

\* The number of 409 conflicts met so far.
Conflicts(l) ==
    Cardinality({ i \in 1..Len(l) :
        l[i].fn = "createServiceAccountAndSetRoles" /\ l[i].status = Conflict })

\* The command line: `firebase ext:install [extensionName]`.
InitInstall ==
    /\ pc = "start"
    /\ argv \in { "" } \cup ExtensionNames
    /\ extensionName = argv
    /\ learnMore = FALSE
    /\ instanceId = ""
    /\ serviceAccountEmail = ""
    /\ spinner = "idle"
    /\ log = << >>
    /\ outcome = Pending
    /\ ListAtRest

\* An error leaves the action: the command's promise is rejected.
ActionThrows(err) ==
    /\ pc' = "end"
    /\ outcome' = Rejected(err)

\* An error inside installExtension: spinner.fail(), then both catch blocks.
InstallThrows(err) ==
    /\ spinner' = "failed"
    /\ ActionThrows(CatchAndWrap(CatchAndWrap(err)))

\* The action up to its first await.
ActionStart ==
    /\ pc = "start"
    /\ learnMore' = (extensionName = "")
    /\ pc' = IF extensionName = "" THEN "promptForOfficialExtension" ELSE "resolveSource"
    /\ UNCHANGED <<argv, extensionName, instanceId, serviceAccountEmail, spinner, log,
                   outcome>>
    /\ UNCHANGED listVars

\* `extensionName = await promptForOfficialExtension(...)`, outside the try.
PromptForOfficialExtension ==
    /\ pc = "promptForOfficialExtension"
    /\ \/ \E name \in ExtensionNames :
              /\ extensionName' = name
              /\ log' = Append(log, LogEntry("promptForOfficialExtension", TRUE, 0, "",
                                             "", name))
              /\ pc' = "resolveSource"
              /\ UNCHANGED outcome
       \/ \E err \in Errors :
              /\ log' = Append(log, Failed("promptForOfficialExtension", err))
              /\ ActionThrows(err)
              /\ UNCHANGED extensionName
    /\ UNCHANGED <<argv, learnMore, instanceId, serviceAccountEmail, spinner>>
    /\ UNCHANGED listVars

\* `await resolveSource(extensionName, ...)`
ResolveSource ==
    /\ pc = "resolveSource"
    /\ \/ /\ log' = Append(log, Succeeded("resolveSource"))
          /\ pc' = "getSource"
          /\ UNCHANGED outcome
       \/ \E err \in Errors :
              /\ log' = Append(log, Failed("resolveSource", err))
              /\ ActionThrows(CatchAndWrap(err))
    /\ UNCHANGED <<argv, extensionName, learnMore, instanceId, serviceAccountEmail,
                   spinner>>
    /\ UNCHANGED listVars

\* `await extensionsApi.getSource(sourceUrl)`
GetSource ==
    /\ pc = "getSource"
    /\ \/ /\ log' = Append(log, Succeeded("getSource"))
          /\ pc' = IF learnMore THEN "promptOnce" ELSE "installExtension"
          /\ UNCHANGED outcome
       \/ \E err \in Errors :
              /\ log' = Append(log, Failed("getSource", err))
              /\ ActionThrows(CatchAndWrap(err))
    /\ UNCHANGED <<argv, extensionName, learnMore, instanceId, serviceAccountEmail,
                   spinner>>
    /\ UNCHANGED listVars

\* `const confirm = await promptOnce(...); if (!confirm) return;`
PromptOnce ==
    /\ pc = "promptOnce"
    /\ \E confirm \in BOOLEAN :
           /\ log' = Append(log, LogEntry("promptOnce", TRUE, 0, "", "",
                                          IF confirm THEN "yes" ELSE "no"))
           /\ IF AfterConfirm(confirm) = "return"
              THEN pc' = "end" /\ outcome' = Resolved
              ELSE pc' = "installExtension" /\ UNCHANGED outcome
    /\ UNCHANGED <<argv, extensionName, learnMore, instanceId, serviceAccountEmail,
                   spinner>>
    /\ UNCHANGED listVars

\* `return installExtension({...})` up to its first await.
InstallExtension ==
    /\ pc = "installExtension"
    /\ pc' = InstallOrder[1]
    /\ UNCHANGED <<argv, extensionName, learnMore, instanceId, serviceAccountEmail,
                   spinner, log, outcome>>
    /\ UNCHANGED listVars

\* An awaited step of installExtension that yields nothing the loop reads.
Await(step) ==
    /\ pc = step
    /\ \/ /\ log' = Append(log, Succeeded(step))
          /\ pc' = StepAfter(step)
          /\ UNCHANGED <<spinner, outcome>>
       \/ \E err \in Errors :
              /\ log' = Append(log, Failed(step, err))
              /\ InstallThrows(err)
    /\ UNCHANGED <<argv, extensionName, learnMore, instanceId, serviceAccountEmail>>
    /\ UNCHANGED listVars

\* `await checkProjectBilling(...)`
CheckProjectBilling == Await("checkProjectBilling")

\* `await askUserForConsent.prompt(...)`: throws when consent is refused.
AskUserForConsent == Await("askUserForConsent.prompt")

\* `const params = await paramHelper.getParams(...)`
GetParams == Await("paramHelper.getParams")

\* `let instanceId = await getValidInstanceId(...); spinner.start();`
GetValidInstanceId ==
    /\ pc = "getValidInstanceId"
    /\ \/ \E id \in InstanceIds :
              /\ instanceId' = id
              /\ log' = Append(log, LogEntry("getValidInstanceId", TRUE, 0, id, "", ""))
              /\ spinner' = "spinning"
              /\ pc' = IF LoopAgain(serviceAccountEmail)
                       THEN StepAfter("getValidInstanceId")
                       ELSE StepAfter("createServiceAccountAndSetRoles")
              /\ UNCHANGED outcome
       \/ \E err \in Errors :
              /\ log' = Append(log, Failed("getValidInstanceId", err))
              /\ InstallThrows(err)
              /\ UNCHANGED instanceId
    /\ UNCHANGED <<argv, extensionName, learnMore, serviceAccountEmail>>
    /\ UNCHANGED listVars

\* One attempt of the loop: `serviceAccountEmail = await
\* createServiceAccountAndSetRoles(projectId, roles, instanceId)` and its catch.
CreateServiceAccountAndSetRoles ==
    /\ pc = "createServiceAccountAndSetRoles"
    /\ \/ \E email \in Emails :
              /\ serviceAccountEmail' = email
              /\ log' = Append(log, LogEntry("createServiceAccountAndSetRoles", TRUE, 0,
                                             instanceId, email, ""))
              /\ pc' = IF LoopAgain(email)
                       THEN "createServiceAccountAndSetRoles"
                       ELSE StepAfter("createServiceAccountAndSetRoles")
              /\ UNCHANGED <<spinner, outcome>>
       \/ \E err \in StatusErrors :
              /\ IsConflict(err) => Conflicts(log) < MaxConflicts
              /\ log' = Append(log, LogEntry("createServiceAccountAndSetRoles", FALSE,
                                             err.status, instanceId, "", ""))
              /\ IF IsConflict(err)
                 THEN /\ spinner' = "stopped"
                      /\ pc' = "promptForValidInstanceId"
                      /\ UNCHANGED outcome
                 ELSE InstallThrows(err)
              /\ UNCHANGED serviceAccountEmail
    /\ UNCHANGED <<argv, extensionName, learnMore, instanceId>>
    /\ UNCHANGED listVars

\* `instanceId = await promptForValidInstanceId(...); spinner.start();` and
\* the loop's test.
PromptForValidInstanceId ==
    /\ pc = "promptForValidInstanceId"
    /\ \E answer \in InstanceIds :
           /\ instanceId' = NewInstanceId(instanceId, answer)
           /\ log' = Append(log, LogEntry("promptForValidInstanceId", TRUE, 0, "", "",
                                          answer))
    /\ spinner' = "spinning"
    /\ pc' = IF LoopAgain(serviceAccountEmail)
             THEN "createServiceAccountAndSetRoles"
             ELSE StepAfter("createServiceAccountAndSetRoles")
    /\ UNCHANGED <<argv, extensionName, learnMore, serviceAccountEmail, outcome>>
    /\ UNCHANGED listVars

\* `await extensionsApi.createInstance(projectId, instanceId, source, params,
\* serviceAccountEmail); spinner.stop();` and the messages after it.
CreateInstance ==
    /\ pc = "createInstance"
    /\ \/ /\ log' = Append(log, LogEntry("createInstance", TRUE, 0, instanceId,
                                         serviceAccountEmail, ""))
          /\ spinner' = "stopped"
          /\ pc' = "end"
          /\ outcome' = Resolved
       \/ \E err \in Errors :
              /\ log' = Append(log, LogEntry("createInstance", FALSE, 0, instanceId,
                                             serviceAccountEmail, ""))
              /\ InstallThrows(err)
    /\ UNCHANGED <<argv, extensionName, learnMore, instanceId, serviceAccountEmail>>
    /\ UNCHANGED listVars

NextInstall ==
    \/ ActionStart
    \/ PromptForOfficialExtension
    \/ ResolveSource
    \/ GetSource
    \/ PromptOnce
    \/ InstallExtension
    \/ CheckProjectBilling
    \/ AskUserForConsent
    \/ GetParams
    \/ GetValidInstanceId
    \/ CreateServiceAccountAndSetRoles
    \/ PromptForValidInstanceId
    \/ CreateInstance

SpecInstall == InitInstall /\ [][NextInstall]_vars

(***************************************************************************)
(* What the claims about ext:install speak of.                             *)
(***************************************************************************)
\* The positions of the log where fn was called.
CallsOf(fn) == { i \in 1..Len(log) : log[i].fn = fn }

\* The steps that only installExtension performs.
InstallSteps ==
    { "checkProjectBilling", "askUserForConsent.prompt", "paramHelper.getParams",
      "getValidInstanceId", "createServiceAccountAndSetRoles",
      "promptForValidInstanceId", "createInstance" }

\* The steps that come before createInstance.
StepsBeforeCreateInstance ==
    { "checkProjectBilling", "askUserForConsent.prompt", "paramHelper.getParams",
      "getValidInstanceId", "createServiceAccountAndSetRoles" }

\* fn was called before position i and completed successfully.
DoneBefore(fn, i) == { j \in 1..(i - 1) : log[j].fn = fn /\ log[j].ok }

\* The five steps completed successfully, in their order, before position i.
AllStepsDoneInOrderBefore(i) ==
    \E a \in DoneBefore("checkProjectBilling", i) :
    \E b \in DoneBefore("askUserForConsent.prompt", i) :
    \E c \in DoneBefore("paramHelper.getParams", i) :
    \E d \in DoneBefore("getValidInstanceId", i) :
    \E e \in DoneBefore("createServiceAccountAndSetRoles", i) :
        a < b /\ b < c /\ c < d /\ d < e

\* The user answered the confirmation with yes / with no.
ConfirmedAt(j) == log[j].fn = "promptOnce" /\ log[j].answer = "yes"
DeclinedAt(j) == log[j].fn = "promptOnce" /\ log[j].answer = "no"

(* C7: with extensionName omitted, the first call is the selection prompt,  *)
(* the confirmation is asked right after the source is fetched and not      *)
(* before, installExtension and its steps run only after a yes, and a no    *)
(* ends the action resolved with no install step; with extensionName given, *)
(* neither prompt occurs.                                                   *)
C7_ConfirmBeforeInstall ==
    /\ argv # "" =>
           CallsOf("promptForOfficialExtension") \cup CallsOf("promptOnce") = { }
    /\ argv = "" =>
           /\ log # << >> => log[1].fn = "promptForOfficialExtension"
           /\ \A i \in CallsOf("promptOnce") : DoneBefore("getSource", i) # { }
           /\ \A j \in CallsOf("getSource") :
                  log[j].ok => IF j = Len(log) THEN pc = "promptOnce"
                               ELSE log[j + 1].fn = "promptOnce"
           /\ \A i \in 1..Len(log) :
                  log[i].fn \in InstallSteps => \E j \in 1..(i - 1) : ConfirmedAt(j)
           /\ pc \in InstallSteps \cup { "installExtension" } =>
                  \E j \in 1..Len(log) : ConfirmedAt(j)
           /\ (\E j \in 1..Len(log) : DeclinedAt(j)) =>
                  /\ pc = "end"
                  /\ outcome = Resolved
                  /\ \A i \in 1..Len(log) : log[i].fn \notin InstallSteps

\* The extension was picked from the list, confirmed, and installed.
C7_Witness ==
    /\ argv = ""
    /\ \E j \in 1..Len(log) : ConfirmedAt(j)
    /\ \E i \in CallsOf("createInstance") : log[i].ok
    /\ outcome = Resolved

(* C8 as stated: createInstance is called at most once, only after the five *)
(* steps completed successfully in their order, and never in a run in which *)
(* a call of one of these steps failed.                                     *)
C8_NeverAfterAnyFailure ==
    /\ Cardinality(CallsOf("createInstance")) <= 1
    /\ \A i \in CallsOf("createInstance") : AllStepsDoneInOrderBefore(i)
    /\ (\E j \in 1..Len(log) :
            log[j].fn \in StepsBeforeCreateInstance /\ ~log[j].ok) =>
           CallsOf("createInstance") = { }

(* C8 as amended: createInstance is called at most once, only after the     *)
(* five steps completed successfully in their order, and never in a run in  *)
(* which a call of one of these steps failed, a 409 of                      *)
(* createServiceAccountAndSetRoles (which is retried) excepted.             *)
C8_CreateInstanceOnlyAfterAllSteps ==
    /\ Cardinality(CallsOf("createInstance")) <= 1
    /\ \A i \in CallsOf("createInstance") : AllStepsDoneInOrderBefore(i)
    /\ (\E j \in 1..Len(log) :
            /\ log[j].fn \in StepsBeforeCreateInstance
            /\ ~log[j].ok
            /\ ~(log[j].fn = "createServiceAccountAndSetRoles"
                 /\ log[j].status = Conflict)) =>
           CallsOf("createInstance") = { }

\* createInstance was called in a run that met a 409 on the way.
C8_Witness ==
    /\ CallsOf("createInstance") # { }
    /\ \E j \in CallsOf("createServiceAccountAndSetRoles") : log[j].status = Conflict

====
